---- MODULE Spec2Model ----
(***************************************************************************)
(* Model of KnowledgeGraphEngine.generateLearningPath                      *)
(* (lib/engines/knowledge-graph.ts, second half of src/unnamed/part_001).  *)
(*                                                                         *)
(* Numbers.  Mastery scores and the threshold are kept in tenths           *)
(* (0.7 is 7), priorities in hundredths, so that                           *)
(*   (1 - m) * 0.3 - d * 0.2 - g * 0.5                                     *)
(* becomes  3 * (10 - m) - 20 * d - 50 * g.  Difficulties are drawn from   *)
(* whole numbers, so two priorities are equal in the model exactly when    *)
(* mastery and difficulty are equal, which is also when the floating point *)
(* values of the code are equal.                                           *)
(*                                                                         *)
(* Concept IDs are opaque strings.  The position of a concept in the       *)
(* sequence "concepts" is its position in the result of                    *)
(* prisma.concept.findMany, the input order of the subject.                *)
(***************************************************************************)
EXTENDS Integers, Sequences, FiniteSets, TLC

VARIABLES
    concepts,          \* rows returned by prisma.concept.findMany for the subject
    masteryThreshold,  \* argument of generateLearningPath, in tenths
    pc,                \* position in the running operation: "call" | "start" |
                       \* "loop" in generateLearningPath, "traverse" in
                       \* getPrerequisites and canAccessConcept, then "done";
                       \* "reordered" after reorderPath
    conceptMap,        \* Map<string, ConceptNode>
    inDegree,          \* Map<string, number>
    adjList,           \* Map<string, string[]>: prerequisite -> dependents
    queue,             \* Array<{id, priority}>
    path,              \* ConceptNode[] (the ids of the nodes, in order)
    gaps,              \* string[] (before deduplication)
    processed,         \* Set<string>
    result,            \* the returned LearningPath, NoResult before the return
    entered,           \* history: the ids pushed on the queue, in push order
    store,             \* the database: every concept row with its prerequisite
                       \* relations and the learner's profile rows
    operation,         \* the method of KnowledgeGraphEngine that was called
    conceptId,         \* argument of getPrerequisites and canAccessConcept
    visited,           \* Set<string> of getPrerequisites
    prerequisites,     \* string[] of getPrerequisites, its return value
    stack,             \* the calls of traverse that have not returned
    queries,           \* history: the ids passed to prisma.concept.findUnique
    access,            \* the value canAccessConcept returned, NoAccess before
    remediationNeeded, \* argument of reorderPath: the ids to put first
    updatedPath,       \* the LearningPath reorderPath returned, NoResult before
    profileRow,        \* the UserProfile row of one (user, concept) pair, as a
                       \* sequence of at most one row
    calls,             \* the running calls of updateMastery for that pair:
                       \* position, score argument and the profile read
    attemptsBefore     \* history: the attempts counter before the calls

\* the variables of getPrerequisites and canAccessConcept
traverseVars == <<conceptId, visited, prerequisites, stack, queries, access>>

\* the variables of AdaptationLoop.reorderPath
adaptVars == <<remediationNeeded, updatedPath>>

\* the variables of UserProfilingEngine.updateMastery
profilingVars == <<profileRow, calls, attemptsBefore>>

vars == <<concepts, masteryThreshold, pc, conceptMap, inDegree, adjList, queue,
          path, gaps, processed, result, entered, store, operation, traverseVars,
          adaptVars, profilingVars>>

----------------------------------------------------------------------------
(* Bounds of the model *)

\* masteryThreshold: number = 0.7, in tenths
DefaultThreshold == 7

\* number of concepts of a generated subject
NumConcepts == 3

\* largest number of prerequisite edges of a generated subject
MaxEdges == 2

----------------------------------------------------------------------------
(* Sequence helpers *)

Range(s) == {s[i] : i \in DOMAIN s}

RECURSIVE SetToSeq(_, _)
\* the members of S in the order of the sequence ord
SetToSeq(S, ord) ==
    IF ord = <<>> THEN <<>>
    ELSE IF Head(ord) \in S THEN <<Head(ord)>> \o SetToSeq(S, Tail(ord))
         ELSE SetToSeq(S, Tail(ord))

----------------------------------------------------------------------------
(* Inputs: the store's content for one subject and one learner *)

\* IDs the generated subjects draw their concepts from, in input order
ConceptIds == <<"A", "B", "C", "D", "E">>

\* a prerequisite ID that belongs to no concept of the subject
ExternalId == "X"

\* mastery scores of the generated learners: no profile row, or 0.7
Profiles == {<<>>, <<[masteryScore |-> 7]>>}

Difficulties == {0, 2}

\* Concept.estimatedTime of the concept at input position i
EstimatedTimeOf(i) == 15 * (i + 1)

SubjectIds == SubSeq(ConceptIds, 1, NumConcepts)

\* prerequisite edges <<prerequisite, dependent>> a subject with these
\* concepts can have: from a concept of the subject or the external ID to
\* another concept
AllEdges(ids) == {e \in (Range(ids) \cup {ExternalId}) \X Range(ids) : e[1] # e[2]}

PrereqsIn(ids, es) == [id \in Range(ids) |-> {e[1] : e \in {f \in es : f[2] = id}}]

\* the rows findMany returns: concept with its prerequisite relations and
\* the learner's profile rows (at most one per concept)
ConceptRows(ids, pre, prof, diff) ==
    [i \in 1..Len(ids) |->
        [id            |-> ids[i],
         prerequisites |-> SetToSeq(pre[ids[i]], ids \o <<ExternalId>>),
         profiles      |-> prof[ids[i]],
         difficulty    |-> diff[ids[i]],
         estimatedTime |-> EstimatedTimeOf(i)]]

----------------------------------------------------------------------------
(* Graph construction, lines 371-400 *)

Ids(rows) == {rows[i].id : i \in DOMAIN rows}

\* concept.profiles[0]?.masteryScore ?? 0
MasteryOf(row) == IF Len(row.profiles) = 0 THEN 0 ELSE row.profiles[1].masteryScore

ConceptNode(row) ==
    [id            |-> row.id,
     prerequisites |-> row.prerequisites,
     difficulty    |-> row.difficulty,
     masteryScore  |-> MasteryOf(row)]

BuildConceptMap(rows) ==
    [id \in Ids(rows) |-> ConceptNode(rows[CHOOSE i \in DOMAIN rows : rows[i].id = id])]

BuildInDegree(rows) ==
    [id \in Ids(rows) |->
        Len(rows[CHOOSE i \in DOMAIN rows : rows[i].id = id].prerequisites)]

RECURSIVE Dependents(_, _)
\* the concepts, in input order, that have p among their prerequisites
Dependents(rows, p) ==
    IF rows = <<>> THEN <<>>
    ELSE (IF p \in Range(Head(rows).prerequisites) THEN <<Head(rows).id>> ELSE <<>>)
         \o Dependents(Tail(rows), p)

\* every concept gets [], then each prerequisite relation appends the
\* dependent to its prerequisite's list (also for a prerequisite that is no
\* concept of the subject)
BuildAdjList(rows) ==
    [p \in Ids(rows) \cup UNION {Range(rows[i].prerequisites) : i \in DOMAIN rows}
        |-> Dependents(rows, p)]

----------------------------------------------------------------------------
(* Priority, lines 483-496 *)

\* node.masteryScore is always set by line 386, so the 0.5 branch of
\* masteryBonus is never taken
calculatePriority(node, gapCount) ==
    LET masteryBonus      == (10 - node.masteryScore) * 3
        difficultyPenalty == node.difficulty * 20
        gapPenalty        == gapCount * 50
    IN masteryBonus - difficultyPenalty - gapPenalty

----------------------------------------------------------------------------
(* Seeding, lines 407-427 *)

\* mutant: only a prerequisite outside the subject counts as missing
IsMissing_OnlyAbsent(cm, threshold, prereqId) ==
    prereqId \notin DOMAIN cm

\* mutant: a prerequisite exactly at the threshold counts as missing
IsMissing_AtThreshold(cm, threshold, prereqId) ==
    prereqId \notin DOMAIN cm \/ cm[prereqId].masteryScore <= threshold

\* mutant: the mastery of the prerequisite is read from the store at the
\* time of the decision
IsMissing_Live(cm, threshold, prereqId) ==
    \/ prereqId \notin DOMAIN cm
    \/ \E i \in DOMAIN store :
           store[i].id = prereqId /\ MasteryOf(store[i]) < threshold

\* a prerequisite counts as missing when it is no concept of the subject or
\* its snapshot mastery is below the threshold
IsMissing(cm, threshold, prereqId) ==
    prereqId \notin DOMAIN cm \/ cm[prereqId].masteryScore < threshold

\* mutant: no prerequisite is ever missing
MissingPrereqs_None(cm, threshold, node) == <<>>

MissingPrereqs(cm, threshold, node) ==
    SelectSeq(node.prerequisites, LAMBDA prereqId : IsMissing(cm, threshold, prereqId))

\* the condition of line 410
SeedCandidate(degree, node, threshold) ==
    degree = 0 \/ node.masteryScore >= threshold

RECURSIVE SeedLoop(_, _, _, _, _)
\* the for loop over inDegree.entries(), which iterates in insertion order:
\* the input order of the concepts.  Returns the queue and the gaps.
SeedLoop(order, cm, deg, threshold, acc) ==
    IF order = <<>> THEN acc
    ELSE LET id      == Head(order)
             node    == cm[id]
             missing == MissingPrereqs(cm, threshold, node)
             next    ==
                 IF SeedCandidate(deg[id], node, threshold)
                 THEN IF Len(missing) = 0
                      THEN [acc EXCEPT !.queue =
                                Append(@, [id |-> id,
                                           priority |-> calculatePriority(node, Len(missing))])]
                      ELSE [acc EXCEPT !.gaps = @ \o missing]
                 ELSE acc
         IN SeedLoop(Tail(order), cm, deg, threshold, next)

----------------------------------------------------------------------------
(* Queue processing, lines 429-464 *)

RECURSIVE InsertSorted_BeforeEquals(_, _)
\* mutant: an unstable sort, e goes before the entries of equal priority
InsertSorted_BeforeEquals(sorted, e) ==
    IF sorted = <<>> THEN <<e>>
    ELSE IF Head(sorted).priority > e.priority
         THEN <<Head(sorted)>> \o InsertSorted_BeforeEquals(Tail(sorted), e)
         ELSE <<e>> \o sorted

RECURSIVE InsertSorted_Ascending(_, _)
\* mutant: the comparator is a.priority - b.priority, lowest priority first
InsertSorted_Ascending(sorted, e) ==
    IF sorted = <<>> THEN <<e>>
    ELSE IF Head(sorted).priority <= e.priority
         THEN <<Head(sorted)>> \o InsertSorted_Ascending(Tail(sorted), e)
         ELSE <<e>> \o sorted

RECURSIVE InsertSorted(_, _)
\* e goes after every entry whose priority is not lower: equal priorities
\* keep their queue order
InsertSorted(sorted, e) ==
    IF sorted = <<>> THEN <<e>>
    ELSE IF Head(sorted).priority >= e.priority
         THEN <<Head(sorted)>> \o InsertSorted(Tail(sorted), e)
         ELSE <<e>> \o sorted

RECURSIVE SortQueue(_)
\* queue.sort((a, b) => b.priority - a.priority): Array.prototype.sort is
\* stable, highest priority first
SortQueue(q) ==
    IF q = <<>> THEN <<>>
    ELSE InsertSorted(SortQueue(SubSeq(q, 1, Len(q) - 1)), q[Len(q)])

\* mutant: the dependent is pushed at every decrement, not only at the last
Released_AnyDegree(cm, threshold, currentDegree, neighborNode) ==
    Len(MissingPrereqs(cm, threshold, neighborNode)) = 0

\* mutant: plain Kahn release, without the mastery check of lines 449-456
Released_NoMasteryCheck(cm, threshold, currentDegree, neighborNode) ==
    currentDegree = 1

\* mutant: the test reads the in-degree after the decrement
Released_AfterDecrement(cm, threshold, currentDegree, neighborNode) ==
    currentDegree = 0 /\ Len(MissingPrereqs(cm, threshold, neighborNode)) = 0

\* whether a dependent whose in-degree was currentDegree before the
\* decrement is pushed on the queue, lines 447-461
Released(cm, threshold, currentDegree, neighborNode) ==
    currentDegree = 1 /\ Len(MissingPrereqs(cm, threshold, neighborNode)) = 0

RECURSIVE ReleaseLoop(_, _, _, _)
\* the for loop over the neighbors of the placed concept.  Returns the
\* in-degrees and the queue.
ReleaseLoop(neighbors, cm, threshold, acc) ==
    IF neighbors = <<>> THEN acc
    ELSE LET neighborId    == Head(neighbors)
             currentDegree == IF neighborId \in DOMAIN acc.inDegree
                              THEN acc.inDegree[neighborId] ELSE 0
             deg1          == [acc.inDegree EXCEPT ![neighborId] = currentDegree - 1]
             q1            ==
                 IF Released(cm, threshold, currentDegree, cm[neighborId])
                 THEN Append(acc.queue,
                             [id |-> neighborId,
                              priority |-> calculatePriority(cm[neighborId], 0)])
                 ELSE acc.queue
         IN ReleaseLoop(Tail(neighbors), cm, threshold, [inDegree |-> deg1, queue |-> q1])

----------------------------------------------------------------------------
(* Result, lines 466-476 *)

\* the ?? operator on a nullable number: the right operand replaces a left
\* operand that is not a number (null / undefined)
OrDefault(v, d) == IF v \in Int THEN v ELSE d

\* concept?.estimatedTime ?? 30
DefaultEstimatedTime == 30

RECURSIVE TotalTime_AllConcepts(_, _)
\* mutant: the sum runs over every concept of the subject, placed or not
TotalTime_AllConcepts(p, rows) ==
    IF rows = <<>> THEN 0
    ELSE Head(rows).estimatedTime + TotalTime_AllConcepts(p, Tail(rows))

RECURSIVE TotalTime(_, _)
\* path.reduce over concept.estimatedTime
TotalTime(p, rows) ==
    IF p = <<>> THEN 0
    ELSE OrDefault(rows[CHOOSE i \in DOMAIN rows : rows[i].id = Head(p)].estimatedTime,
                   DefaultEstimatedTime)
         + TotalTime(Tail(p), rows)

RECURSIVE Dedupe(_)
\* [...new Set(gaps)]: first occurrences, in order
Dedupe(s) ==
    IF s = <<>> THEN <<>>
    ELSE LET front == Dedupe(SubSeq(s, 1, Len(s) - 1))
         IN IF s[Len(s)] \in Range(front) THEN front ELSE Append(front, s[Len(s)])

LearningPath(p, cm, rows, g) ==
    [concepts           |-> [i \in DOMAIN p |-> cm[p[i]]],
     totalEstimatedTime |-> TotalTime(p, rows),
     gaps               |-> Dedupe(g)]

----------------------------------------------------------------------------
(* The diamond subject: B and C need A, D needs B and C *)

DiamondIds == <<"A", "B", "C", "D">>

DiamondPrereqs == [id \in Range(DiamondIds) |->
    CASE id = "A" -> {}
      [] id = "B" -> {"A"}
      [] id = "C" -> {"A"}
      [] id = "D" -> {"B", "C"}]

\* A has mastery 0.8 or 0.4, every other concept a profile with mastery 0
DiamondProfiles == {[id \in Range(DiamondIds) |->
                        <<[masteryScore |-> IF id = "A" THEN a ELSE 0]>>] : a \in {8, 4}}

----------------------------------------------------------------------------
(* Other thresholds, on a subject of two concepts *)

PairIds == <<"A", "B">>

\* 0, 0.5, 0.9 and 1: the ends of [0, 1], one value below and one above the
\* mastery 0.7 of the generated profiles; -0.1 and 1.1: the parameter is a
\* number the caller chooses, and the function does not restrict it
Thresholds == {-1, 0, 5, 9, 10, 11}

----------------------------------------------------------------------------
(* State machine of one call of generateLearningPath *)

NoResult == [concepts |-> <<>>, totalEstimatedTime |-> 0, gaps |-> <<>>]

NoAccess == [canAccess |-> FALSE, missingPrereqs |-> <<>>]

NoConcept == ""

\* getPrerequisites and canAccessConcept have not been called
NoTraversal ==
    /\ conceptId = NoConcept
    /\ visited = {}
    /\ prerequisites = <<>>
    /\ stack = <<>>
    /\ queries = <<>>
    /\ access = NoAccess

\* updateMastery is not running
NoUpdates ==
    /\ profileRow = <<>>
    /\ calls = <<>>
    /\ attemptsBefore = 0

\* reorderPath has not been called, updateMastery is not running
NoAdapt ==
    /\ remediationNeeded = <<>>
    /\ updatedPath = NoResult
    /\ NoUpdates

EmptyMap == [x \in {} |-> 0]

InitCall(rows, threshold) ==
    /\ concepts = rows
    /\ masteryThreshold = threshold
    /\ pc = "start"
    /\ conceptMap = EmptyMap
    /\ inDegree = EmptyMap
    /\ adjList = EmptyMap
    /\ queue = <<>>
    /\ path = <<>>
    /\ gaps = <<>>
    /\ processed = {}
    /\ result = NoResult
    /\ entered = <<>>
    /\ store = rows
    /\ operation = "generateLearningPath"
    /\ NoTraversal
    /\ NoAdapt

\* a generated subject: every prerequisite relation of at most MaxEdges
\* edges without self-loops (cycles included), every profile and
\* difficulty, called with the default threshold
InitGenerated ==
    \E es \in {x \in SUBSET AllEdges(SubjectIds) : Cardinality(x) <= MaxEdges},
       prof \in [Range(SubjectIds) -> Profiles],
       diff \in [Range(SubjectIds) -> Difficulties] :
        InitCall(ConceptRows(SubjectIds, PrereqsIn(SubjectIds, es), prof, diff),
                 DefaultThreshold)

\* a subject of two concepts with every prerequisite relation, called with
\* the other thresholds
InitThresholds ==
    \E es \in SUBSET AllEdges(PairIds),
       prof \in [Range(PairIds) -> Profiles],
       diff \in [Range(PairIds) -> Difficulties],
       threshold \in Thresholds :
        InitCall(ConceptRows(PairIds, PrereqsIn(PairIds, es), prof, diff), threshold)

InitDiamond ==
    \E prof \in DiamondProfiles, diff \in [Range(DiamondIds) -> Difficulties] :
        InitCall(ConceptRows(DiamondIds, DiamondPrereqs, prof, diff), DefaultThreshold)

Init == InitGenerated \/ InitThresholds \/ InitDiamond

QueueIds(q) == [i \in DOMAIN q |-> q[i].id]

\* mutant: the processed check is missing
AlreadyProcessed_Never(proc, id) == FALSE

\* line 435: processed.has(id)
AlreadyProcessed(proc, id) == id \in proc

\* mutant: the first entry is read but stays in the queue
Shift_Peek(q) == q

\* queue.shift(): the queue without its first entry
Shift(q) == Tail(q)

\* lines 356-427: read the subject, build the graph, seed the queue
Seed ==
    /\ pc = "start"
    /\ LET cm     == BuildConceptMap(concepts)
           deg    == BuildInDegree(concepts)
           seeded == SeedLoop([i \in DOMAIN concepts |-> concepts[i].id], cm, deg,
                              masteryThreshold, [queue |-> <<>>, gaps |-> <<>>])
       IN /\ conceptMap' = cm
          /\ inDegree' = deg
          /\ adjList' = BuildAdjList(concepts)
          /\ queue' = seeded.queue
          /\ gaps' = seeded.gaps
          /\ entered' = QueueIds(seeded.queue)
    /\ pc' = "loop"
    /\ UNCHANGED <<profilingVars, adaptVars, concepts, masteryThreshold, path, processed, result,
                   store, operation, traverseVars>>

\* lines 431-435: one iteration that pops an entry of a processed concept
Skip ==
    /\ pc = "loop"
    /\ queue # <<>>
    /\ LET sorted == SortQueue(queue)
       IN /\ AlreadyProcessed(processed, Head(sorted).id)
          /\ queue' = Shift(sorted)
    /\ UNCHANGED <<profilingVars, adaptVars, concepts, masteryThreshold, pc, conceptMap, inDegree, adjList,
                   path, gaps, processed, result, entered,
                   store, operation, traverseVars>>

\* lines 431-463: one iteration that places a concept
Place ==
    /\ pc = "loop"
    /\ queue # <<>>
    /\ LET sorted == SortQueue(queue)
           id     == Head(sorted).id
           after  == ReleaseLoop(IF id \in DOMAIN adjList THEN adjList[id] ELSE <<>>,
                                 conceptMap, masteryThreshold,
                                 [inDegree |-> inDegree, queue |-> Shift(sorted)])
       IN /\ ~AlreadyProcessed(processed, id)
          /\ processed' = processed \cup {id}
          /\ path' = Append(path, id)
          /\ inDegree' = after.inDegree
          /\ queue' = after.queue
          /\ entered' = entered \o QueueIds(SubSeq(after.queue, Len(sorted), Len(after.queue)))
    /\ UNCHANGED <<profilingVars, adaptVars, concepts, masteryThreshold, pc, conceptMap, adjList, gaps, result,
                   store, operation, traverseVars>>

\* lines 466-476: the queue is empty, return the path
Return ==
    /\ pc = "loop"
    /\ queue = <<>>
    /\ result' = LearningPath(path, conceptMap, concepts, gaps)
    /\ pc' = "done"
    /\ UNCHANGED <<profilingVars, adaptVars, concepts, masteryThreshold, conceptMap, inDegree, adjList,
                   queue, path, gaps, processed, entered,
                   store, operation, traverseVars>>

Next == Seed \/ Skip \/ Place \/ Return

Spec == Init /\ [][Next]_vars

\* The call runs to completion: after the one await of the read, the body is
\* synchronous code that nothing suspends, so a step that is possible is taken.
FairSpec == Spec /\ WF_vars(Next)

----------------------------------------------------------------------------
(* Vocabulary of the properties *)

Done == pc = "done"

\* the IDs of the returned sequence, in order
ResultIds == [i \in DOMAIN result.concepts |-> result.concepts[i].id]

Placed == Range(ResultIds)

RowOf(id) == concepts[CHOOSE i \in DOMAIN concepts : concepts[i].id = id]

\* direct prerequisites of a concept of the subject, from the input rows
PrereqsOf(id) == Range(RowOf(id).prerequisites)

InSubject(id) == id \in Ids(concepts)

\* snapshot mastery of a concept of the subject, from the input rows
SnapshotMastery(id) == MasteryOf(RowOf(id))

Mastered(id) == InSubject(id) /\ SnapshotMastery(id) >= masteryThreshold

\* position in the input order of the subject
InputPos(id) == CHOOSE i \in DOMAIN concepts : concepts[i].id = id

Before(seq, x, y) == \E i, j \in DOMAIN seq : i < j /\ seq[i] = x /\ seq[j] = y

RECURSIVE PrereqClosure(_)
PrereqClosure(S) ==
    LET more == S \cup UNION {PrereqsOf(x) : x \in {y \in S : InSubject(y)}}
    IN IF more = S THEN S ELSE PrereqClosure(more)

\* no concept of the subject is among its own transitive prerequisites
Acyclic == \A id \in Ids(concepts) : id \notin PrereqClosure(PrereqsOf(id))

\* the diamond subject with mastery a for A, 0 for B, C and D, threshold 0.7
DiamondCase(a) ==
    /\ [i \in DOMAIN concepts |-> concepts[i].id] = DiamondIds
    /\ \A id \in Range(DiamondIds) : PrereqsOf(id) = DiamondPrereqs[id]
    /\ SnapshotMastery("A") = a
    /\ \A id \in {"B", "C", "D"} : SnapshotMastery(id) = 0
    /\ masteryThreshold = DefaultThreshold

----------------------------------------------------------------------------
(* C1 *)

\* C1: for an acyclic subject, every prerequisite of every concept of the
\* returned sequence is outside the subject, or has snapshot mastery at or
\* above the threshold, or appears earlier in the sequence.
C1_PrerequisitesSatisfiedOrEarlier ==
    (Done /\ Acyclic) =>
        \A c \in Placed : \A p \in PrereqsOf(c) :
            \/ ~InSubject(p)
            \/ SnapshotMastery(p) >= masteryThreshold
            \/ Before(ResultIds, p, c)

\* an acyclic subject whose returned sequence holds a concept together with
\* one of its prerequisites
C1_Witness ==
    /\ Done
    /\ Acyclic
    /\ \E c \in Placed : \E p \in PrereqsOf(c) : Before(ResultIds, p, c)

----------------------------------------------------------------------------
(* C2 *)

----------------------------------------------------------------------------
(* C3 *)

----------------------------------------------------------------------------
(* C4 *)

\* C4: on the diamond with mastery 0.4 for A the returned sequence is [A]
\* and the gap set is {A}.
C4_DiamondGapIsA ==
    (Done /\ DiamondCase(4)) =>
        /\ ResultIds = <<"A">>
        /\ Range(result.gaps) = {"A"}

----------------------------------------------------------------------------
(* C5 *)

----------------------------------------------------------------------------
(* C6 *)

\* C6: no concept occurs twice in the sequence, at any point of the run and
\* in the result, for every graph (cyclic ones included).
C6_PlacedAtMostOnce ==
    /\ \A i, j \in DOMAIN path : path[i] = path[j] => i = j
    /\ \A i, j \in DOMAIN ResultIds : ResultIds[i] = ResultIds[j] => i = j

\* a concept was pushed at seeding time and again when its prerequisite
\* count reached zero, and the call has returned with it in the sequence
C6_Witness ==
    /\ Done
    /\ \E i, j \in DOMAIN entered : i # j /\ entered[i] = entered[j] /\ entered[i] \in Placed

----------------------------------------------------------------------------
(* C7 *)

\* a direct prerequisite that is unmet in the snapshot
Unmet(p) == ~InSubject(p) \/ SnapshotMastery(p) < masteryThreshold

\* C7: every unmet prerequisite of every concept that is not placed is in
\* the returned gap set.
C7_BlockingPrerequisitesInGaps ==
    Done => \A c \in Ids(concepts) \ Placed :
                \A p \in PrereqsOf(c) : Unmet(p) => p \in Range(result.gaps)

----------------------------------------------------------------------------
(* C8 *)

\* every direct prerequisite is a concept of the subject with snapshot
\* mastery at or above the threshold (none at all included)
AllPrereqsSatisfied(c) == \A p \in PrereqsOf(c) : Mastered(p)

\* the priority score of a concept, with gap count 0
PriorityOf(c) == calculatePriority(ConceptNode(RowOf(c)), 0)

\* C8: of two placed concepts that both have every prerequisite satisfied in
\* the snapshot, the one with the strictly higher priority score comes
\* earlier in the returned sequence.
C8_EligibleByPriority ==
    Done => \A x, y \in Placed :
                (/\ AllPrereqsSatisfied(x)
                 /\ AllPrereqsSatisfied(y)
                 /\ PriorityOf(x) > PriorityOf(y)) => Before(ResultIds, x, y)

----------------------------------------------------------------------------
(* C9 *)

\* position of the first push of a concept on the queue
EnteredPos(id) == CHOOSE i \in DOMAIN entered :
                      entered[i] = id /\ \A j \in 1..(i - 1) : entered[j] # id

\* the concepts that wait in the queue
Waiting == {queue[i].id : i \in DOMAIN queue} \ processed

\* the step places a concept
Places == pc = "loop" /\ Len(path') = Len(path) + 1

----------------------------------------------------------------------------
(* C11 *)

\* estimated time of a concept of the subject, from the input rows
EstimatedTime(id) == RowOf(id).estimatedTime

RECURSIVE SumOfTimes(_)
SumOfTimes(ids) ==
    IF ids = <<>> THEN 0 ELSE EstimatedTime(Head(ids)) + SumOfTimes(Tail(ids))

\* C11: the returned total is the sum of the estimated times of the concepts
\* of the returned sequence; concepts that are not placed and gap concepts
\* add nothing.
C11_TimeAdditivity ==
    Done => result.totalEstimatedTime = SumOfTimes(ResultIds)

\* a result that places some concepts of the subject, leaves others out and
\* reports a gap
C11_Witness ==
    /\ Done
    /\ Placed # {}
    /\ Ids(concepts) \ Placed # {}
    /\ result.gaps # <<>>
    /\ result.totalEstimatedTime > 0

----------------------------------------------------------------------------
(* C12 *)

\* the subject is two concepts, each the only prerequisite of the other
MutualCycle ==
    /\ Len(concepts) = 2
    /\ \A c \in Ids(concepts) : PrereqsOf(c) = Ids(concepts) \ {c}

\* C12: on a subject of two concepts that are each other's prerequisite and
\* that the learner has not mastered, the call returns an empty sequence and
\* both concept IDs are in the gap set.
C12_CycleMembersAreGaps ==
    (Done /\ MutualCycle /\ \A c \in Ids(concepts) : ~Mastered(c))
        => /\ ResultIds = <<>>
           /\ Ids(concepts) \subseteq Range(result.gaps)

----------------------------------------------------------------------------
(* C13 *)

\* C13: the frontier loop terminates for every finite subject and every
\* prerequisite edge set, cycles included: the queue becomes empty and the
\* call returns a result.
C13_LoopTerminates == <>(Done /\ queue = <<>>)

\* the entries of the queue plus the concepts that still wait for a
\* prerequisite to be placed
LoopVariant ==
    Len(queue) + Cardinality({id \in DOMAIN inDegree : inDegree[id] >= 1})

\* every iteration of the loop makes the variant smaller, which bounds the
\* number of iterations whatever the size of the subject
LoopVariantDecreases ==
    [][(pc = "loop" /\ pc' = "loop") => LoopVariant' < LoopVariant]_vars

\* a returned call on a subject with a prerequisite cycle whose members were
\* in the queue
C13_Witness ==
    /\ Done
    /\ ~Acyclic
    /\ \E c \in Placed : c \in PrereqClosure({c})
    /\ Len(path) >= 2

----------------------------------------------------------------------------
(* The whole call as a function of the rows read and the threshold *)

RECURSIVE ProcessQueue(_, _, _, _)
\* the while loop of lines 430-464, from the loop state st to the final path
ProcessQueue(cm, adj, threshold, st) ==
    IF st.queue = <<>> THEN st.path
    ELSE LET sorted == SortQueue(st.queue)
             id     == Head(sorted).id
             after  == ReleaseLoop(IF id \in DOMAIN adj THEN adj[id] ELSE <<>>,
                                   cm, threshold,
                                   [inDegree |-> st.inDegree, queue |-> Shift(sorted)])
         IN IF AlreadyProcessed(st.processed, id)
            THEN ProcessQueue(cm, adj, threshold, [st EXCEPT !.queue = Shift(sorted)])
            ELSE ProcessQueue(cm, adj, threshold,
                              [queue     |-> after.queue,
                               path      |-> Append(st.path, id),
                               processed |-> st.processed \cup {id},
                               inDegree  |-> after.inDegree])

\* generateLearningPath on the rows that findMany returned
GenerateLearningPath(rows, threshold) ==
    LET cm     == BuildConceptMap(rows)
        deg    == BuildInDegree(rows)
        seeded == SeedLoop([i \in DOMAIN rows |-> rows[i].id], cm, deg, threshold,
                           [queue |-> <<>>, gaps |-> <<>>])
        p      == ProcessQueue(cm, BuildAdjList(rows), threshold,
                               [queue |-> seeded.queue, path |-> <<>>,
                                processed |-> {}, inDegree |-> deg])
    IN LearningPath(p, cm, rows, seeded.gaps)

\* the IDs of the sequence of a learning path, as a set
PlacedIn(lp) == {lp.concepts[i].id : i \in DOMAIN lp.concepts}

\* the steps of the call compute the function
StepsComputeFunction ==
    Done => result = GenerateLearningPath(concepts, masteryThreshold)

----------------------------------------------------------------------------
(* C14 *)

\* C14: when a prerequisite P has snapshot mastery exactly 0.7 and its
\* dependent D is placed at threshold 0.5, the run at threshold 0.9 on the
\* same snapshot does not place D and has P in its gap set.
C14_RaisedThresholdReportsGap ==
    (Done /\ masteryThreshold = 9) =>
        \A d \in Ids(concepts) : \A p \in PrereqsOf(d) :
            (/\ InSubject(p)
             /\ SnapshotMastery(p) = 7
             /\ d \in PlacedIn(GenerateLearningPath(concepts, 5)))
                => /\ d \notin Placed
                   /\ p \in Range(result.gaps)

\* the half of C14 that the code does satisfy: D leaves the sequence
RaisedThresholdRemovesDependent ==
    (Done /\ masteryThreshold = 9) =>
        \A d \in Ids(concepts) : \A p \in PrereqsOf(d) :
            (/\ InSubject(p)
             /\ SnapshotMastery(p) = 7
             /\ d \in PlacedIn(GenerateLearningPath(concepts, 5)))
                => d \notin Placed

----------------------------------------------------------------------------
(* C15 *)

\* the threshold is in [0, 1]
ValidThreshold == masteryThreshold \in 0..10

\* C15: a call with a threshold below 0 or above 1 is rejected: it does not
\* run to a returned path.
C15_InvalidThresholdRejected ==
    ~ValidThreshold => (pc = "start" /\ result = NoResult)

----------------------------------------------------------------------------
(* getPrerequisites and canAccessConcept *)

\* prisma.concept.findUnique({where: {id}}): the row with this id, as a
\* sequence of at most one row (empty for null)
FindUnique(s, id) == SelectSeq(s, LAMBDA row : row.id = id)

\* mutant: the root of the traversal is never taken as visited
IsVisited_ExceptRoot(v, id) == id \in v /\ id # conceptId

\* visited.has(id)
IsVisited(v, id) == id \in v

\* mutant: the recursive call is left out
Call_Skipped(s, id) == s

\* await traverse(id): a new call on top of the calls that have not returned
Call(s, id) == Append(s, [id |-> id, rels |-> <<>>, at |-> "enter"])

\* the innermost call of traverse
Top(s) == s[Len(s)]

\* the innermost call returns
Pop(s) == SubSeq(s, 1, Len(s) - 1)

\* lines 283-297 for an id that was not visited: mark it, query it, return
\* when the store has no such concept
TraverseVisit ==
    /\ pc = "traverse"
    /\ stack # <<>>
    /\ Top(stack).at = "enter"
    /\ ~IsVisited(visited, Top(stack).id)
    /\ LET id      == Top(stack).id
           concept == FindUnique(store, id)
       IN /\ visited' = visited \cup {id}
          /\ queries' = Append(queries, id)
          /\ stack' = IF concept = <<>>
                      THEN Pop(stack)
                      ELSE Append(Pop(stack),
                                  [id |-> id, rels |-> concept[1].prerequisites, at |-> "loop"])
    /\ UNCHANGED <<profilingVars, adaptVars, concepts, masteryThreshold, pc, conceptMap, inDegree, adjList,
                   queue, path, gaps, processed, result, entered,
                   store, operation, conceptId, prerequisites, access>>

\* line 283: the id was visited, the call returns at once
TraverseVisited ==
    /\ pc = "traverse"
    /\ stack # <<>>
    /\ Top(stack).at = "enter"
    /\ IsVisited(visited, Top(stack).id)
    /\ stack' = Pop(stack)
    /\ UNCHANGED <<profilingVars, adaptVars, concepts, masteryThreshold, pc, conceptMap, inDegree, adjList,
                   queue, path, gaps, processed, result, entered,
                   store, operation, conceptId, visited, prerequisites, queries, access>>

\* lines 298-300: one iteration of the for loop: push the prerequisite's id,
\* then call traverse on it
TraversePrerequisite ==
    /\ pc = "traverse"
    /\ stack # <<>>
    /\ Top(stack).at = "loop"
    /\ Top(stack).rels # <<>>
    /\ LET prerequisiteId == Head(Top(stack).rels)
       IN /\ prerequisites' = Append(prerequisites, prerequisiteId)
          /\ stack' = Call(Append(Pop(stack), [Top(stack) EXCEPT !.rels = Tail(@)]),
                           prerequisiteId)
    /\ UNCHANGED <<profilingVars, adaptVars, concepts, masteryThreshold, pc, conceptMap, inDegree, adjList,
                   queue, path, gaps, processed, result, entered,
                   store, operation, conceptId, visited, queries, access>>

\* lines 301-302: the for loop is over, the call returns
TraverseReturn ==
    /\ pc = "traverse"
    /\ stack # <<>>
    /\ Top(stack).at = "loop"
    /\ Top(stack).rels = <<>>
    /\ stack' = Pop(stack)
    /\ UNCHANGED <<profilingVars, adaptVars, concepts, masteryThreshold, pc, conceptMap, inDegree, adjList,
                   queue, path, gaps, processed, result, entered,
                   store, operation, conceptId, visited, prerequisites, queries, access>>

\* lines 304-305: traverse(conceptId) returned, return the list
GetPrerequisitesReturn ==
    /\ pc = "traverse"
    /\ stack = <<>>
    /\ operation = "getPrerequisites"
    /\ pc' = "done"
    /\ UNCHANGED <<profilingVars, adaptVars, concepts, masteryThreshold, conceptMap, inDegree, adjList,
                   queue, path, gaps, processed, result, entered,
                   store, operation, traverseVars>>


\* masteryMap.get(id) ?? 0 over the profile rows of userProfile.findMany
StoreMastery(s, id) ==
    LET found == FindUnique(s, id)
    IN IF found = <<>> THEN 0 ELSE MasteryOf(found[1])

\* mutant: a prerequisite exactly at the threshold counts as missing
MissingOf_AtThreshold(s, threshold, prereqs) ==
    SelectSeq(prereqs, LAMBDA id : StoreMastery(s, id) <= threshold)

\* lines 335-341: the prerequisites whose mastery is below the threshold
MissingOf(s, threshold, prereqs) ==
    SelectSeq(prereqs, LAMBDA id : StoreMastery(s, id) < threshold)

\* lines 318-322: getPrerequisites returned an empty list
CanAccessNoPrerequisites ==
    /\ pc = "traverse"
    /\ stack = <<>>
    /\ operation = "canAccessConcept"
    /\ prerequisites = <<>>
    /\ access' = [canAccess |-> TRUE, missingPrereqs |-> <<>>]
    /\ pc' = "done"
    /\ UNCHANGED <<profilingVars, adaptVars, concepts, masteryThreshold, conceptMap, inDegree, adjList,
                   queue, path, gaps, processed, result, entered,
                   store, operation, conceptId, visited, prerequisites, stack, queries>>

\* lines 324-344: read the learner's profiles of the prerequisites and return
\* those below the threshold
CanAccessProfiles ==
    /\ pc = "traverse"
    /\ stack = <<>>
    /\ operation = "canAccessConcept"
    /\ prerequisites # <<>>
    /\ LET missingPrereqs == MissingOf(store, masteryThreshold, prerequisites)
       IN access' = [canAccess |-> Len(missingPrereqs) = 0,
                     missingPrereqs |-> missingPrereqs]
    /\ pc' = "done"
    /\ UNCHANGED <<profilingVars, adaptVars, concepts, masteryThreshold, conceptMap, inDegree, adjList,
                   queue, path, gaps, processed, result, entered,
                   store, operation, conceptId, visited, prerequisites, stack, queries>>

\* generateLearningPath has not been called
NoPathCall ==
    /\ concepts = <<>>
    /\ conceptMap = EmptyMap
    /\ inDegree = EmptyMap
    /\ adjList = EmptyMap
    /\ queue = <<>>
    /\ path = <<>>
    /\ gaps = <<>>
    /\ processed = {}
    /\ result = NoResult
    /\ entered = <<>>

\* the state at the call of getPrerequisites or canAccessConcept
InitTraversal(rows, op, id, threshold) ==
    /\ NoPathCall
    /\ store = rows
    /\ operation = op
    /\ masteryThreshold = threshold
    /\ pc = "traverse"
    /\ conceptId = id
    /\ visited = {}
    /\ prerequisites = <<>>
    /\ stack = Call(<<>>, id)
    /\ queries = <<>>
    /\ access = NoAccess
    /\ NoAdapt

NoProfiles(ids) == [id \in Range(ids) |-> <<>>]

NoDifficulty(ids) == [id \in Range(ids) |-> 0]

\* getPrerequisites on every concept of every generated graph, on an id the
\* store does not have, and on the concepts of the diamond
InitGetPrerequisites ==
    \/ \E es \in {x \in SUBSET AllEdges(SubjectIds) : Cardinality(x) <= MaxEdges},
          id \in Range(SubjectIds) \cup {ExternalId} :
           InitTraversal(ConceptRows(SubjectIds, PrereqsIn(SubjectIds, es),
                                     NoProfiles(SubjectIds), NoDifficulty(SubjectIds)),
                         "getPrerequisites", id, DefaultThreshold)
    \/ \E id \in Range(DiamondIds) :
           InitTraversal(ConceptRows(DiamondIds, DiamondPrereqs,
                                     NoProfiles(DiamondIds), NoDifficulty(DiamondIds)),
                         "getPrerequisites", id, DefaultThreshold)

NextPrerequisites ==
    \/ TraverseVisit
    \/ TraverseVisited
    \/ TraversePrerequisite
    \/ TraverseReturn
    \/ GetPrerequisitesReturn

\* Every await of the traversal is a query the store answers, so a call of
\* traverse that can take its next step takes it.
SpecPrerequisites ==
    InitGetPrerequisites /\ [][NextPrerequisites]_vars /\ WF_vars(NextPrerequisites)

----------------------------------------------------------------------------
(* C18 *)

\* no id was passed to findUnique twice
QueriedAtMostOnce ==
    \A i, j \in DOMAIN queries : i # j => queries[i] # queries[j]

\* C18: getPrerequisites terminates on every finite prerequisite graph,
\* with several paths to a concept and with cycles, and queries each concept
\* at most once per call.
C18_TerminatesQueryingOnce == (<>(pc = "done")) /\ []QueriedAtMostOnce

\* the direct prerequisite IDs the store has for an id
StorePrerequisites(id) ==
    LET found == FindUnique(store, id)
    IN IF found = <<>> THEN {} ELSE Range(found[1].prerequisites)

RECURSIVE ReachableFrom(_)
\* the IDs of S and every ID reachable from them by prerequisite edges
ReachableFrom(S) ==
    LET more == S \cup UNION {StorePrerequisites(x) : x \in S}
    IN IF more = S THEN S ELSE ReachableFrom(more)

\* the IDs reachable from id by one or more prerequisite edges
TransitivePrerequisites(id) == ReachableFrom(StorePrerequisites(id))

\* a returned call on a concept that is on a cycle, or that reaches a concept
\* by two paths, where a visited id was met again
C18_Witness ==
    /\ pc = "done"
    /\ operation = "getPrerequisites"
    /\ \/ conceptId \in TransitivePrerequisites(conceptId)
       \/ Len(prerequisites) > Cardinality(Range(prerequisites))
    /\ Len(queries) >= 2
    /\ Len(prerequisites) >= Len(queries)

----------------------------------------------------------------------------
(* C19 *)

\* C19: the set of IDs getPrerequisites returns is the set of IDs reachable
\* from the queried concept by one or more prerequisite edges.
C19_ReturnsTransitiveClosure ==
    (pc = "done" /\ operation = "getPrerequisites")
        => Range(prerequisites) = TransitivePrerequisites(conceptId)

\* a returned call whose result has an indirect prerequisite
C19_Witness ==
    /\ pc = "done"
    /\ operation = "getPrerequisites"
    /\ Range(prerequisites) \ StorePrerequisites(conceptId) # {}
    /\ StorePrerequisites(conceptId) # {}

----------------------------------------------------------------------------
(* C20 *)

\* C20: no concept ID occurs twice in the list getPrerequisites returns,
\* also when a prerequisite is reachable through several paths.
C20_ReturnsNoDuplicates ==
    (pc = "done" /\ operation = "getPrerequisites")
        => \A i, j \in DOMAIN prerequisites : i # j => prerequisites[i] # prerequisites[j]

----------------------------------------------------------------------------
(* The three operations against the store *)

\* a profile row as getProfile creates it for a concept that has none
WithProfile(row) ==
    IF row.profiles = <<>> THEN [row EXCEPT !.profiles = <<[masteryScore |-> 0]>>]
    ELSE row

\* mutant: the read creates the profile rows that are absent
FindMany_CreatingProfiles(s) ==
    LET created == [i \in DOMAIN s |-> WithProfile(s[i])]
    IN [rows |-> created, store |-> created]

\* prisma.concept.findMany with its includes: the rows read and the store
\* after the read
FindMany(s) == [rows |-> s, store |-> s]

\* lines 357-369: the one read of generateLearningPath
Fetch ==
    /\ pc = "call"
    /\ operation = "generateLearningPath"
    /\ LET read == FindMany(store)
       IN /\ concepts' = read.rows
          /\ store' = read.store
    /\ pc' = "start"
    /\ UNCHANGED <<profilingVars, adaptVars, masteryThreshold, conceptMap, inDegree, adjList, queue, path,
                   gaps, processed, result, entered, operation, traverseVars>>

\* the state at the call of generateLearningPath, the read not yet done
InitPathCall(rows, threshold) ==
    /\ NoPathCall
    /\ NoTraversal
    /\ NoAdapt
    /\ store = rows
    /\ operation = "generateLearningPath"
    /\ masteryThreshold = threshold
    /\ pc = "call"

\* generateLearningPath on a subject of two concepts with every prerequisite
\* relation, profile and difficulty, and on the diamond
InitGenerateLearningPath ==
    \/ \E es \in SUBSET AllEdges(PairIds),
          prof \in [Range(PairIds) -> Profiles],
          diff \in [Range(PairIds) -> Difficulties] :
           InitPathCall(ConceptRows(PairIds, PrereqsIn(PairIds, es), prof, diff),
                        DefaultThreshold)
    \/ \E prof \in DiamondProfiles :
           InitPathCall(ConceptRows(DiamondIds, DiamondPrereqs, prof,
                                    NoDifficulty(DiamondIds)),
                        DefaultThreshold)

\* canAccessConcept on the concepts of the same subjects and on an id the
\* store does not have
InitCanAccessConcept ==
    \/ \E es \in SUBSET AllEdges(PairIds),
          prof \in [Range(PairIds) -> Profiles],
          id \in Range(PairIds) \cup {ExternalId} :
           InitTraversal(ConceptRows(PairIds, PrereqsIn(PairIds, es), prof,
                                     NoDifficulty(PairIds)),
                         "canAccessConcept", id, DefaultThreshold)
    \/ \E prof \in DiamondProfiles, id \in Range(DiamondIds) :
           InitTraversal(ConceptRows(DiamondIds, DiamondPrereqs, prof,
                                     NoDifficulty(DiamondIds)),
                         "canAccessConcept", id, DefaultThreshold)

InitOperations == InitGenerateLearningPath \/ InitGetPrerequisites \/ InitCanAccessConcept

NextOperations ==
    \/ Fetch
    \/ Next
    \/ NextPrerequisites
    \/ CanAccessNoPrerequisites
    \/ CanAccessProfiles

\* one call of one of the three operations, and no other client of the store
SpecOperations == InitOperations /\ [][NextOperations]_vars

----------------------------------------------------------------------------
(* Mastery updates by other callers during generateLearningPath *)

\* masteryScore values an update leaves in a profile: 0.3 and 1, one below
\* and one above the default threshold, both different from the generated
\* profiles
UpdatedMasteries == {3, 10}

\* UserProfilingEngine.updateMastery by another caller: the profile of one
\* concept is created if absent and its masteryScore replaced.  The new
\* score stands for the clamped moving average of lines 76-87; any value of
\* [0, 1] can be the outcome of some sequence of updates.
UpdateMastery ==
    /\ \E i \in DOMAIN store, m \in UpdatedMasteries :
           /\ MasteryOf(store[i]) # m
           /\ store' = [store EXCEPT ![i].profiles = <<[masteryScore |-> m]>>]
    /\ UNCHANGED <<profilingVars, adaptVars, concepts, masteryThreshold, pc, conceptMap, inDegree, adjList,
                   queue, path, gaps, processed, result, entered,
                   operation, traverseVars>>

NextConcurrent ==
    \/ Fetch
    \/ Next
    \/ UpdateMastery

\* one call of generateLearningPath, with updates of the learner's mastery
\* at any moment of it
SpecConcurrent == InitGenerateLearningPath /\ [][NextConcurrent]_vars

----------------------------------------------------------------------------
(* C16 *)

\* C16: generateLearningPath, getPrerequisites and canAccessConcept leave
\* the store unchanged: no step of them creates, updates or deletes a
\* concept, a prerequisite relation or a profile.
C16_StoreUnchanged == [][store' = store]_vars

\* a returned generateLearningPath that read a concept without profile row
\* and placed it; the store still has no profile row for it
C16_Witness ==
    /\ Done
    /\ operation = "generateLearningPath"
    /\ \E i \in DOMAIN store : store[i].profiles = <<>> /\ store[i].id \in Placed

----------------------------------------------------------------------------
(* C17 *)

\* the read takes the store as it is at that moment
ReadsStoreOnce ==
    /\ (pc = "call" /\ pc' = "start") => concepts' = store
    /\ pc # "call" => concepts' = concepts

\* the result is the function of the rows read, and every mastery annotation
\* is the one of the rows read
ResultOfSnapshot ==
    Done => /\ result = GenerateLearningPath(concepts, masteryThreshold)
            /\ \A i \in DOMAIN result.concepts :
                   result.concepts[i].masteryScore = SnapshotMastery(result.concepts[i].id)

\* C17: with mastery updates interleaved, the result of generateLearningPath
\* is the pure computation on the store as it was at the call's one read.
C17_SnapshotIsolation == [][ReadsStoreOnce]_vars /\ []ResultOfSnapshot

\* a returned call during which an update changed the store, and the current
\* store would give another result
C17_Witness ==
    /\ Done
    /\ store # concepts
    /\ result # GenerateLearningPath(store, masteryThreshold)
    /\ Len(result.concepts) >= 2

----------------------------------------------------------------------------
(* C21 *)

\* canAccessConcept has returned
AccessReturned == pc = "done" /\ operation = "canAccessConcept"

\* the transitive prerequisites of the queried concept whose mastery in the
\* store is below the threshold, an absent profile counting as 0
UnmasteredPrerequisites ==
    {p \in TransitivePrerequisites(conceptId) : StoreMastery(store, p) < masteryThreshold}

\* C21: canAccessConcept returns as missing exactly the transitive
\* prerequisites whose mastery is below the threshold, and canAccess is true
\* exactly when there is none.
C21_MissingAreUnmasteredPrerequisites ==
    AccessReturned =>
        /\ Range(access.missingPrereqs) = UnmasteredPrerequisites
        /\ access.canAccess <=> (UnmasteredPrerequisites = {})

\* a returned call with a mastered and an unmastered transitive prerequisite
C21_Witness ==
    /\ AccessReturned
    /\ ~access.canAccess
    /\ UnmasteredPrerequisites # {}
    /\ TransitivePrerequisites(conceptId) \ UnmasteredPrerequisites # {}

----------------------------------------------------------------------------
(* AdaptationLoop.reorderPath on the path generateLearningPath returned *)

\* remediationNeeded.includes(id)
Includes(list, id) == id \in Range(list)

\* mutant: a concept is added whatever its prerequisites
CanAdd_Always(concept, added) == TRUE

\* concept.prerequisites.every(prereqId => added.has(prereqId))
CanAdd(concept, added) ==
    \A i \in DOMAIN concept.prerequisites : concept.prerequisites[i] \in added

RECURSIVE AddRemediation(_, _)
\* lines 232-238: the loop over the remediation concepts
AddRemediation(cs, acc) ==
    IF cs = <<>> THEN acc
    ELSE LET concept == Head(cs)
         IN AddRemediation(Tail(cs),
                IF CanAdd(concept, acc.added)
                THEN [reordered |-> Append(acc.reordered, concept),
                      added     |-> acc.added \cup {concept.id}]
                ELSE acc)

RECURSIVE AddOthers(_, _)
\* lines 241-249: the loop over the other concepts
AddOthers(cs, acc) ==
    IF cs = <<>> THEN acc
    ELSE LET concept == Head(cs)
         IN AddOthers(Tail(cs),
                IF concept.id \notin acc.added /\ CanAdd(concept, acc.added)
                THEN [reordered |-> Append(acc.reordered, concept),
                      added     |-> acc.added \cup {concept.id}]
                ELSE acc)

\* reorderPath(currentPath, remediationNeeded), lines 208-256
reorderPath(currentPath, remediation) ==
    IF Len(remediation) = 0 THEN currentPath
    ELSE LET remediationConcepts ==
                 SelectSeq(currentPath.concepts, LAMBDA c : Includes(remediation, c.id))
             otherConcepts ==
                 SelectSeq(currentPath.concepts, LAMBDA c : ~Includes(remediation, c.id))
             filled ==
                 AddOthers(otherConcepts,
                           AddRemediation(remediationConcepts,
                                          [reordered |-> <<>>, added |-> {}]))
         IN [currentPath EXCEPT !.concepts = filled.reordered]

\* the call of reorderPath in adapt (lines 138-144) on the path that
\* generateLearningPath returned, with any list of ids of the subject
ReorderPath ==
    /\ pc = "done"
    /\ operation = "generateLearningPath"
    /\ \E needed \in SUBSET Ids(concepts) :
           LET list == SetToSeq(needed, ConceptIds)
           IN /\ remediationNeeded' = list
              /\ updatedPath' = reorderPath(result, list)
    /\ pc' = "reordered"
    /\ UNCHANGED <<concepts, masteryThreshold, conceptMap, inDegree, adjList,
                   queue, path, gaps, processed, result, entered,
                   store, operation, traverseVars, profilingVars>>

\* the subject of the reordering example: D needs B and C, which need A;
\* A, B and C are mastered and D has a profile with mastery 0, so that the
\* path is [A, B, C, D]
ExampleProfiles ==
    [id \in Range(DiamondIds) |-> <<[masteryScore |-> IF id = "D" THEN 0 ELSE 7]>>]

\* generated subjects with every profile, the subjects of two concepts with
\* every difficulty and threshold, the diamond and the reordering example
InitAdapt ==
    \/ \E es \in {x \in SUBSET AllEdges(SubjectIds) : Cardinality(x) <= MaxEdges},
          prof \in [Range(SubjectIds) -> Profiles] :
           InitCall(ConceptRows(SubjectIds, PrereqsIn(SubjectIds, es), prof,
                                NoDifficulty(SubjectIds)),
                    DefaultThreshold)
    \/ InitThresholds
    \/ InitDiamond
    \/ InitCall(ConceptRows(DiamondIds, DiamondPrereqs, ExampleProfiles,
                            NoDifficulty(DiamondIds)),
                DefaultThreshold)

NextAdapt ==
    \/ Next
    \/ ReorderPath

\* generateLearningPath followed by reorderPath, as in adapt
SpecAdapt == InitAdapt /\ [][NextAdapt]_vars

\* reorderPath has returned
Reordered == pc = "reordered"

\* the IDs of the sequence reorderPath returned, in order
UpdatedIds == [i \in DOMAIN updatedPath.concepts |-> updatedPath.concepts[i].id]


----------------------------------------------------------------------------
(* C22 *)

\* C22: reordering the path [A, B, C, D], where D has the prerequisites B and
\* C, with the priority set {D} returns a sequence that contains D, with B
\* and C before it.
C22_PriorityKeepsDependent ==
    (/\ Reordered
     /\ ResultIds = <<"A", "B", "C", "D">>
     /\ PrereqsOf("D") = {"B", "C"}
     /\ remediationNeeded = <<"D">>)
        => /\ "D" \in Range(UpdatedIds)
           /\ Before(UpdatedIds, "B", "D")
           /\ Before(UpdatedIds, "C", "D")


----------------------------------------------------------------------------
(* C23 *)

\* every prerequisite of a placed concept that is a concept of the input
\* path is earlier in the output
OutputRespectsPrerequisites ==
    \A c \in Range(UpdatedIds) : \A p \in PrereqsOf(c) :
        p \in Range(ResultIds) => Before(UpdatedIds, p, c)

----------------------------------------------------------------------------
(* C24 *)

\* the members of seq that satisfy keep, in their order
Filtered(seq, keep) == SelectSeq(seq, LAMBDA x : x \in keep)

\* C24: reorderPath only changes order: the returned sequence has exactly
\* the concepts of the input sequence, each once, and the concepts outside
\* the priority set keep their relative order.
C24_ReorderIsPermutation ==
    Reordered =>
        /\ Range(UpdatedIds) = Range(ResultIds)
        /\ Len(UpdatedIds) = Len(ResultIds)
        /\ LET others == Range(ResultIds) \ Range(remediationNeeded)
           IN Filtered(UpdatedIds, others) = Filtered(ResultIds, others)

----------------------------------------------------------------------------
(* C27 *)

\* C27: the LearningPath reorderPath returns keeps time additivity: its
\* totalEstimatedTime is the sum of the estimated times of the concepts of
\* its sequence.
C27_ReorderedTimeAdditivity ==
    Reordered => updatedPath.totalEstimatedTime = SumOfTimes(UpdatedIds)


----------------------------------------------------------------------------
(* C25 *)

\* C25: every concept of the returned sequence that has a prerequisite has
\* all of its direct prerequisites inside the subject with snapshot mastery
\* at or above the threshold.
C25_PlacedHaveMasteredPrerequisites ==
    Done => \A c \in Placed :
                PrereqsOf(c) # {} =>
                    \A p \in PrereqsOf(c) :
                        InSubject(p) /\ SnapshotMastery(p) >= masteryThreshold

\* a result that places a concept with a prerequisite and leaves out a
\* concept whose prerequisite is not mastered
C25_Witness ==
    /\ Done
    /\ \E c \in Placed : PrereqsOf(c) # {}
    /\ \E c \in Ids(concepts) \ Placed : \E p \in PrereqsOf(c) : ~Mastered(p)

----------------------------------------------------------------------------
(* C26 *)

\* C26: at every pop that places a concept, the priority score of the
\* placed concept, computed with gap count 0, is at least the priority of
\* every entry of the queue at that moment.
C26_PopsHighestPriority ==
    [][Places => LET y == path'[Len(path')]
                 IN \A i \in DOMAIN queue :
                        /\ queue[i].priority = PriorityOf(queue[i].id)
                        /\ PriorityOf(y) >= queue[i].priority]_vars

\* a loop state whose queue holds entries of different priorities, the
\* highest not being the first, and whose next iteration places a concept
C26_Witness ==
    /\ pc = "loop"
    /\ Len(queue) >= 2
    /\ \E i \in DOMAIN queue : queue[i].priority > queue[1].priority
    /\ ~AlreadyProcessed(processed, Head(SortQueue(queue)).id)


----------------------------------------------------------------------------
(* getPrerequisites and canAccessConcept as functions of the store *)

RECURSIVE Traverse(_, _, _)
RECURSIVE TraverseLoop(_, _, _)

\* traverse(id), lines 281-302, from the visited set and the list in acc
Traverse(s, id, acc) ==
    IF IsVisited(acc.visited, id) THEN acc
    ELSE LET concept == FindUnique(s, id)
             marked  == [acc EXCEPT !.visited = @ \cup {id}]
         IN IF concept = <<>> THEN marked
            ELSE TraverseLoop(s, concept[1].prerequisites, marked)

\* the for loop of lines 298-301 over the prerequisite relations rels
TraverseLoop(s, rels, acc) ==
    IF rels = <<>> THEN acc
    ELSE TraverseLoop(s, Tail(rels),
                      Traverse(s, Head(rels),
                               [acc EXCEPT !.prerequisites = Append(@, Head(rels))]))

\* getPrerequisites(id) on the store s
GetPrerequisites(s, id) ==
    Traverse(s, id, [visited |-> {}, prerequisites |-> <<>>]).prerequisites

\* canAccessConcept(id, learner, threshold) on the store s
CanAccessConcept(s, id, threshold) ==
    LET prereqs        == GetPrerequisites(s, id)
        missingPrereqs == MissingOf(s, threshold, prereqs)
    IN IF Len(prereqs) = 0
       THEN [canAccess |-> TRUE, missingPrereqs |-> <<>>]
       ELSE [canAccess |-> Len(missingPrereqs) = 0, missingPrereqs |-> missingPrereqs]

\* the steps of the two operations compute the functions
TraversalComputesFunction ==
    /\ (pc = "done" /\ operation \in {"getPrerequisites", "canAccessConcept"})
           => prerequisites = GetPrerequisites(store, conceptId)
    /\ AccessReturned => access = CanAccessConcept(store, conceptId, masteryThreshold)


----------------------------------------------------------------------------
(* C28 *)

\* what the concept page gets from canAccessConcept for a concept, on the
\* store the path was generated from and with the same threshold
PageAllows(c) == CanAccessConcept(store, c, masteryThreshold).canAccess

\* C28: for the same snapshot and threshold, canAccessConcept returns
\* canAccess = true for every concept of the sequence generateLearningPath
\* returns.
C28_PlacedAreAccessible ==
    (Done /\ store = concepts) => \A c \in Placed : PageAllows(c)

----------------------------------------------------------------------------
(* C29 *)

\* every prerequisite edge of the subject stays inside the subject
EdgesInsideSubject == \A c \in Ids(concepts) : PrereqsOf(c) \subseteq Ids(concepts)

\* C29: for a subject whose prerequisite edges stay inside the subject, and
\* the same snapshot and threshold, every concept for which canAccessConcept
\* returns canAccess = true is in the sequence generateLearningPath returns.
C29_AccessibleAreScheduled ==
    (Done /\ store = concepts /\ EdgesInsideSubject)
        => \A c \in Ids(concepts) : PageAllows(c) => c \in Placed

\* a result that places an unmastered concept whose prerequisites are
\* mastered, and leaves out a concept the page blocks
C29_Witness ==
    /\ Done
    /\ store = concepts
    /\ EdgesInsideSubject
    /\ \E c \in Placed : PrereqsOf(c) # {} /\ ~Mastered(c) /\ PageAllows(c)
    /\ \E c \in Ids(concepts) : ~PageAllows(c) /\ c \notin Placed


----------------------------------------------------------------------------
(* UserProfilingEngine.updateMastery, concurrent calls for one pair *)

\* number of updateMastery calls for the same (user, concept) pair
NumCalls == 2

\* masteryScore and score 1.0 in the unit of this part of the model, 0.00001:
\* the moving average adds one decimal digit at each update
One == 100000

\* alpha = 0.3, as tenths
Alpha == 3

\* score > 0.7 counts as correct
CorrectAbove == 70000

\* the score arguments of the calls: 0.5 and 1.0
Scores == {50000, 100000}

\* the row getProfile creates, lines 46-60
NewProfile == [masteryScore |-> 0, attempts |-> 0, correctCount |-> 0]

\* the pair has no profile, a fresh one, or one with two attempts, one of
\* them correct, and mastery 0.7
InitialProfiles ==
    {<<>>, <<NewProfile>>, <<[masteryScore |-> 70000, attempts |-> 2, correctCount |-> 1]>>}

Min(a, b) == IF a < b THEN a ELSE b

Max(a, b) == IF a > b THEN a ELSE b

\* the data of the update of lines 86-96, computed from the profile that
\* getProfile returned (confidence is correctCount / attempts of this record;
\* timeSpent grows by the argument, 0 in completeAssessment)
Updated(profile, score) ==
    [masteryScore |-> Min(One, Max(0, (Alpha * score + (10 - Alpha) * profile.masteryScore) \div 10)),
     attempts     |-> profile.attempts + 1,
     correctCount |-> profile.correctCount + (IF score > CorrectAbove THEN 1 ELSE 0)]

\* lines 37-44: findUnique of getProfile
FindProfile(i) ==
    /\ calls[i].pc = "getProfile"
    /\ calls' = [calls EXCEPT ![i].profile = profileRow,
                              ![i].pc = IF profileRow = <<>> THEN "create" ELSE "update"]
    /\ UNCHANGED <<concepts, masteryThreshold, pc, conceptMap, inDegree, adjList,
                   queue, path, gaps, processed, result, entered, store, operation,
                   traverseVars, adaptVars, profileRow, attemptsBefore>>

\* lines 46-60: no profile was found and none exists, create it
CreateProfile(i) ==
    /\ calls[i].pc = "create"
    /\ profileRow = <<>>
    /\ profileRow' = <<NewProfile>>
    /\ calls' = [calls EXCEPT ![i].profile = <<NewProfile>>, ![i].pc = "update"]
    /\ UNCHANGED <<concepts, masteryThreshold, pc, conceptMap, inDegree, adjList,
                   queue, path, gaps, processed, result, entered, store, operation,
                   traverseVars, adaptVars, attemptsBefore>>

\* lines 46-60: another call created the profile since the findUnique; the
\* create breaks the unique key (userId, conceptId) and the call throws
CreateProfileRejected(i) ==
    /\ calls[i].pc = "create"
    /\ profileRow # <<>>
    /\ calls' = [calls EXCEPT ![i].pc = "failed"]
    /\ UNCHANGED <<concepts, masteryThreshold, pc, conceptMap, inDegree, adjList,
                   queue, path, gaps, processed, result, entered, store, operation,
                   traverseVars, adaptVars, profileRow, attemptsBefore>>

\* lines 76-96: compute the new values from the profile read and write them
UpdateProfile(i) ==
    /\ calls[i].pc = "update"
    /\ profileRow' = <<Updated(calls[i].profile[1], calls[i].score)>>
    /\ calls' = [calls EXCEPT ![i].pc = "done"]
    /\ UNCHANGED <<concepts, masteryThreshold, pc, conceptMap, inDegree, adjList,
                   queue, path, gaps, processed, result, entered, store, operation,
                   traverseVars, adaptVars, attemptsBefore>>

InitUpdates ==
    /\ NoPathCall
    /\ NoTraversal
    /\ remediationNeeded = <<>>
    /\ updatedPath = NoResult
    /\ store = <<>>
    /\ operation = "updateMastery"
    /\ masteryThreshold = DefaultThreshold
    /\ pc = "updateMastery"
    /\ profileRow \in InitialProfiles
    /\ attemptsBefore = (IF profileRow = <<>> THEN 0 ELSE profileRow[1].attempts)
    /\ \E scores \in [1..NumCalls -> Scores] :
           calls = [i \in 1..NumCalls |->
                       [pc |-> "getProfile", score |-> scores[i], profile |-> <<>>]]

NextUpdates ==
    \E i \in 1..NumCalls :
        \/ FindProfile(i)
        \/ CreateProfile(i)
        \/ CreateProfileRejected(i)
        \/ UpdateProfile(i)

\* NumCalls calls of updateMastery for one pair; a call is suspended at each
\* of its awaits and the calls interleave there
SpecUpdates == InitUpdates /\ [][NextUpdates]_vars


----------------------------------------------------------------------------
(* C30 *)

\* the calls that have completed
Completed == {i \in DOMAIN calls : calls[i].pc = "done"}

\* every call has completed or thrown
AllReturned == \A i \in DOMAIN calls : calls[i].pc \in {"done", "failed"}

\* C30: once the calls of updateMastery for the pair have returned, in any
\* interleaving of their reads and writes, attempts has grown by the number
\* of completed calls and correctCount is at most attempts.
C30_NoLostUpdate ==
    (operation = "updateMastery" /\ AllReturned /\ Completed # {}) =>
        /\ profileRow[1].attempts = attemptsBefore + Cardinality(Completed)
        /\ profileRow[1].correctCount <= profileRow[1].attempts

\* the half of C30 that the code does satisfy
CorrectCountAtMostAttempts ==
    profileRow # <<>> => profileRow[1].correctCount <= profileRow[1].attempts

====
